---------------------------- MODULE Spec2Model ----------------------------
(***************************************************************************)
(* STM32 web flasher (chibaron/test02): the three flash pages of the       *)
(* repository (app.js, part_001, part_002) as state machines over one      *)
(* shared serial reader/writer, with the device as the environment.        *)
(*                                                                         *)
(* A run is one invocation of the start/flash button handler.  Every       *)
(* action is the code of the handler between two suspension points         *)
(* (await).  The device answers a pending reader.read() with a chunk of    *)
(* bytes, or never; the readable stream may also end, after which every    *)
(* read resolves without a value.                                          *)
(***************************************************************************)
EXTENDS Integers, Sequences, FiniteSets, TLC

VARIABLES
    variant,     \* which page is loaded: "app" (app.js), "p1" (part_001), "p2" (part_002)
    run,         \* run[r]: the locals, position and history of handler invocation r
    readQ,       \* the runs whose reader.read() is pending, oldest first
    wire,        \* the bytes of the most recent writer.write, as they go on the line
    streamDone,  \* the readable stream has ended: read() resolves with no value
    call         \* a function called on its own: its argument, its progress, its result

vars == <<variant, run, readQ, wire, streamDone, call>>

-----------------------------------------------------------------------------
(* Bounds of the model *)

\* handler invocations that may be in flight together (SpecClicks)
MaxRuns == 2
\* chunks other than the single byte ACK that the device sends in answer to
\* one write of a run
MaxOdd == 2

Runs == 1 .. MaxRuns

\* no function is called on its own
NoCall == [fn |-> "none"]

\* lines of a HEX text given to parseHex on its own
MaxLines == 3
\* bytes of a buffer given to the CRC functions on their own
MaxCrcLen == 3

-----------------------------------------------------------------------------
(* Program constants *)

ACK == 121
NACK == 31
FLASH_BASE == 134217728
PAGE_SIZE == 2048
WRITE_CHUNK == 32
P_WRITE_CHUNK == 256
SYNC_ATTEMPTS == 5

\* Numbers are held in 32 bits.  parseInt's NaN and the Infinity / -Infinity
\* of Math.min() / Math.max() of nothing are values no address takes.
NaN == -2147483647
PosInf == 2147483647
NegInf == -2147483646

-----------------------------------------------------------------------------
(* Bit operations on JavaScript numbers (32-bit two's complement) *)

Min2(a, b) == IF a <= b THEN a ELSE b

ToUint8(x) == x % 256

\* ~x
BitNot(x) == 0 - x - 1

RECURSIVE XorNat(_, _)
XorNat(a, b) ==
    IF a = 0 THEN b
    ELSE IF b = 0 THEN a
    ELSE (((a % 2) + (b % 2)) % 2) + 2 * XorNat(a \div 2, b \div 2)

\* a ^ b
Xor(a, b) ==
    IF a >= 0 /\ b >= 0 THEN XorNat(a, b)
    ELSE IF a < 0 /\ b >= 0 THEN BitNot(XorNat(BitNot(a), b))
    ELSE IF a >= 0 /\ b < 0 THEN BitNot(XorNat(a, BitNot(b)))
    ELSE XorNat(BitNot(a), BitNot(b))

\* (pid << 8) | b for a byte b: the low 24 bits of pid move up, bit 31 is the sign
Shl8Or(pid, b) ==
    LET lo24 == pid % 16777216
        top  == lo24 \div 65536
        rest == lo24 % 65536
    IN  (IF top >= 128 THEN top - 256 ELSE top) * 16777216 + rest * 256 + b

\* v << 16 for a 16-bit v
Shl16(v) == (IF v >= 32768 THEN v - 65536 ELSE v) * 65536

\* (x >> k) & 0xFF for a non-negative x
ByteOf(x, k) == (x \div (2^k)) % 256

\* buf[lo] ^ ... ^ buf[hi], halved so that long buffers stay shallow (the
\* XOR of a sequence does not depend on how it is bracketed)
RECURSIVE XorRange(_, _, _)
XorRange(buf, lo, hi) ==
    IF lo > hi THEN 0
    ELSE IF lo = hi THEN buf[lo]
    ELSE LET mid == (lo + hi) \div 2
         IN  Xor(XorRange(buf, lo, mid), XorRange(buf, mid + 1, hi))

\* buf.reduce((a, b) => a ^ b, 0)
xorChecksum(buf) == Xor(0, XorRange(buf, 1, Len(buf)))

RECURSIVE Crc8Round(_, _)
Crc8Round(crc, k) ==
    IF k = 0 THEN crc
    ELSE Crc8Round(
            IF (crc \div 128) % 2 = 1
            THEN ToUint8(XorNat(crc * 2, 213))
            ELSE ToUint8(crc * 2),
            k - 1)

\* the eight shift rounds of mspCrc8D5 for each value of crc ^ b
Crc8Step == [c \in 0 .. 255 |-> Crc8Round(c, 8)]

RECURSIVE mspCrc8D5(_)
mspCrc8D5(buf) ==
    IF buf = <<>> THEN 0
    ELSE Crc8Step[XorNat(mspCrc8D5(SubSeq(buf, 1, Len(buf) - 1)), buf[Len(buf)])]

\* x << 1 on a 32-bit number: bit 30 becomes the sign
Shl1(x) ==
    LET low30 == x % 1073741824
        bit30 == (x \div 1073741824) % 2
    IN  IF bit30 = 1 THEN (low30 * 2 - 2147483647) - 1 ELSE low30 * 2

\* the inner loop of msp_crc8_d5 (part_001, part_002) from round j on, for
\* (let j = 0; j < 8; j++): the shift is not masked, so crc is a 32-bit number
RECURSIVE CrcRounds(_, _)
CrcRounds(crc, j) ==
    IF j >= 8 THEN crc
    ELSE IF (crc \div 128) % 2 = 1
         THEN CrcRounds(Xor(Shl1(crc), 213), j + 1)
         ELSE CrcRounds(Shl1(crc), j + 1)

\* crc after the first n bytes of data
RECURSIVE CrcAfter(_, _)
CrcAfter(data, n) ==
    IF n = 0 THEN 0 ELSE CrcRounds(Xor(CrcAfter(data, n - 1), data[n]), 0)

\* crc of msp_crc8_d5 after its loops
CrcRegister(data) == CrcAfter(data, Len(data))

\* the register returned as it is
msp_crc8_d5_Unmasked(data) == CrcRegister(data)

\* msp_crc8_d5 of part_001: return crc & 0xFF
msp_crc8_d5(data) == CrcRegister(data) % 256

\* msp_crc8_d5 of part_002, the same text as that of part_001
P2_msp_crc8_d5(data) == msp_crc8_d5(data)

\* new Uint8Array(bytes): every element is reduced modulo 256, NaN becomes 0
Uint8Array(bytes) ==
    [k \in 1 .. Len(bytes) |-> IF bytes[k] = NaN THEN 0 ELSE ToUint8(bytes[k])]

-----------------------------------------------------------------------------
(* Intel HEX text.  A text is the sequence of its lines (the result of      *)
(* text.split on line ends), a line the sequence of its characters.  The    *)
(* alphabet of the texts below is ':', the hex digits and 'G'; no line has  *)
(* blanks, a sign or an 0x prefix, which parseInt would skip.               *)

HexChars == <<"0", "1", "2", "3", "4", "5", "6", "7", "8", "9",
              "A", "B", "C", "D", "E", "F">>

IsHex(c) == \E k \in 1 .. 16 : HexChars[k] = c

HexVal(c) == (CHOOSE k \in 1 .. 16 : HexChars[k] = c) - 1

\* line.substr(start, length)
Substr(line, start, length) ==
    SubSeq(line, start + 1, Min2(start + length, Len(line)))

\* line.substring(from, to)
Substring(line, from, to) ==
    LET t == Min2(IF to < 0 THEN 0 ELSE to, Len(line))
        f == Min2(from, Len(line))
    IN  IF f <= t THEN SubSeq(line, f + 1, t) ELSE SubSeq(line, t + 1, f)

RECURSIVE HexPrefix(_, _)
HexPrefix(s, acc) ==
    IF s = <<>> \/ ~IsHex(s[1]) THEN acc
    ELSE HexPrefix(Tail(s), acc * 16 + HexVal(s[1]))

\* parseInt(s, 16): the value of the longest prefix of hex digits, NaN when
\* there is none
parseInt16(s) ==
    IF s = <<>> \/ ~IsHex(s[1]) THEN NaN ELSE HexPrefix(s, 0)

\* a + b on numbers, one of which may be NaN
Plus(a, b) == IF a = NaN \/ b = NaN THEN NaN ELSE a + b

\* mem.set(key, v)
MapSet(mem, key, v) == (key :> v) @@ mem

RECURSIVE ParseData(_, _, _, _, _, _)
ParseData(mem, line, base, addr, len, i) ==
    IF len = NaN \/ i >= len THEN mem
    ELSE ParseData(MapSet(mem, Plus(Plus(base, addr), i),
                          parseInt16(Substr(line, 9 + i * 2, 2))),
                   line, base, addr, len, i + 1)

\* one iteration of the loop of parseHex (app.js) over st = [mem, base]
ParseLine(st, line) ==
    IF line = <<>> \/ line[1] # ":" THEN st
    ELSE LET len  == parseInt16(Substr(line, 1, 2))
             addr == parseInt16(Substr(line, 3, 4))
             type == parseInt16(Substr(line, 7, 2))
         IN  IF type = 4
             THEN LET v == parseInt16(Substr(line, 9, 4))
                  IN  [st EXCEPT !.base = IF v = NaN THEN 0 ELSE Shl16(v)]
             ELSE IF type = 0
             THEN [st EXCEPT !.mem = ParseData(st.mem, line, st.base, addr, len, 0)]
             ELSE st

EmptyMap == [k \in {} |-> 0]

\* parseHex of app.js: the address -> byte map after the last line
parseHex(text) ==
    LET after[k \in 0 .. Len(text)] ==
            IF k = 0 THEN [mem |-> EmptyMap, base |-> 0]
            ELSE ParseLine(after[k - 1], text[k])
    IN  after[Len(text)].mem

\* the least value of an empty list taken as -Infinity
MathMinNeg(S) ==
    IF S = {} THEN NegInf
    ELSE IF NaN \in S THEN NaN
    ELSE CHOOSE x \in S : \A y \in S : x <= y

\* Math.min(...addrs), Math.max(...addrs)
MathMin(S) ==
    IF S = {} THEN PosInf
    ELSE IF NaN \in S THEN NaN
    ELSE CHOOSE x \in S : \A y \in S : x <= y

MathMax(S) ==
    IF S = {} THEN NegInf
    ELSE IF NaN \in S THEN NaN
    ELSE CHOOSE x \in S : \A y \in S : x >= y

\* the page rounded up instead of down
PageOfUp(a) ==
    IF a \in {NaN, PosInf, NegInf} THEN a
    ELSE (a - FLASH_BASE + PAGE_SIZE - 1) \div PAGE_SIZE

\* Math.floor((a - FLASH_BASE) / PAGE_SIZE)
PageOf(a) ==
    IF a \in {NaN, PosInf, NegInf} THEN a ELSE (a - FLASH_BASE) \div PAGE_SIZE

\* a <= b of JavaScript: false when either side is NaN
Leq(a, b) == a # NaN /\ b # NaN /\ a <= b

\* s.match(/.{1,2}/g).map(h => parseInt(h, 16)): the pairs of characters of
\* s, the last one possibly a single character
Pairs(s) ==
    [k \in 1 .. ((Len(s) + 1) \div 2) |->
        parseInt16(SubSeq(s, 2 * k - 1, Min2(2 * k, Len(s))))]

\* new Uint8Array(bin) of the decoded pairs: NaN becomes 0
BodyBytes(body) ==
    LET ps == Pairs(body)
    IN  Uint8Array([k \in 1 .. Len(ps) |-> IF ps[k] = NaN THEN 0 ELSE ps[k]])

\* the part of a data record that part_001 decodes
P1Body(line) == Substring(line, 9, Len(line) - 2)

P1IsData(line) ==
    line # <<>> /\ line[1] = ":" /\ parseInt16(Substring(line, 7, 9)) = 0

\* parseHex of part_001: the data bytes of the type-00 records in order
RECURSIVE P1ParseHex(_)
P1ParseHex(text) ==
    IF text = <<>> THEN <<>>
    ELSE (IF P1IsData(text[1]) THEN BodyBytes(P1Body(text[1])) ELSE <<>>)
         \o P1ParseHex(Tail(text))

\* match returns null on an empty string and null.map throws a TypeError
P1ParseThrows(text) ==
    \E k \in 1 .. Len(text) : P1IsData(text[k]) /\ P1Body(text[k]) = <<>>

\* part_002 cuts three characters from the end of the line and wants the
\* type to be the text "00"
P2Body(line) == Substring(line, 9, Len(line) - 3)

P2IsData(line) ==
    line # <<>> /\ line[1] = ":" /\ Substring(line, 7, 9) = <<"0", "0">>

RECURSIVE P2ParseHex(_)
P2ParseHex(text) ==
    IF text = <<>> THEN <<>>
    ELSE (IF P2IsData(text[1]) THEN BodyBytes(P2Body(text[1])) ELSE <<>>)
         \o P2ParseHex(Tail(text))

P2ParseThrows(text) ==
    \E k \in 1 .. Len(text) : P2IsData(text[k]) /\ P2Body(text[k]) = <<>>

-----------------------------------------------------------------------------
(* The HEX files the operator can select *)

Hex2(n) == <<HexChars[((n \div 16) % 16) + 1], HexChars[(n % 16) + 1]>>

Hex4(n) == Hex2(n \div 256) \o Hex2(n % 256)

RECURSIVE HexBytes(_)
HexBytes(bytes) ==
    IF bytes = <<>> THEN <<>> ELSE Hex2(bytes[1]) \o HexBytes(Tail(bytes))

RECURSIVE SumSeq(_)
SumSeq(bytes) == IF bytes = <<>> THEN 0 ELSE bytes[1] + SumSeq(Tail(bytes))

\* a record with the Intel HEX checksum: the sum of all its bytes is 0 mod 256
Record(type, offset, bytes) ==
    LET head == <<Len(bytes), offset \div 256, offset % 256, type>>
    IN  <<":">> \o HexBytes(head \o bytes)
              \o Hex2((256 - (SumSeq(head \o bytes) % 256)) % 256)

DataRec(offset, bytes) == Record(0, offset, bytes)
ExtRec(value) == Record(4, 0, <<value \div 256, value % 256>>)
EofRec == Record(1, 0, <<>>)

Fill(n, b) == [k \in 1 .. n |-> b]

\* a data record whose length field is not hex
BadLenRec == <<":", "G", "G">> \o SubSeq(DataRec(16, <<85>>), 4, 13)

\* a data record whose checksum field is not hex
BadSumRec == SubSeq(DataRec(32, <<102>>), 1, 11) \o <<"G", "G">>

NoFile == 0

FileText(f) ==
    CASE f = 1 -> <<ExtRec(2048), DataRec(0, <<17>>), DataRec(2047, <<34>>), EofRec>>
      [] f = 2 -> <<ExtRec(2048), DataRec(0, <<17>>), DataRec(4095, <<34>>), EofRec>>
      [] f = 3 -> <<ExtRec(2048), DataRec(4094, <<1, 2, 3, 4>>), EofRec>>
      [] f = 4 -> <<ExtRec(2048), BadLenRec, BadSumRec, DataRec(0, <<51>>), EofRec>>
      [] f = 5 -> <<EofRec>>
      [] f = 6 -> <<ExtRec(2048)>>
                  \o [k \in 1 .. 9 |-> DataRec((k - 1) * 32, Fill(32, 160 + k))]
                  \o <<EofRec>>
      [] OTHER -> <<>>

Files == 1 .. 6

\* the files with a record whose length or checksum field is not hex
BadFiles == {4}

-----------------------------------------------------------------------------
(* The state of one handler invocation *)

Kinds == {"msp", "sync", "getid", "erase", "write"}

BlankRun ==
    [pc       |-> "idle",    \* where the handler is suspended
     file     |-> NoFile,    \* hexInput.files[0]
     rd       |-> "none",    \* the pending read: none, wait, got, timeout, null, typeerror
     ret      |-> 0,         \* the byte the read returned
     expired  |-> FALSE,     \* the timeout of the pending read has elapsed
     i        |-> 0,         \* loop counter (sync attempt, ID byte, firmware offset)
     n        |-> 0,         \* GET_ID length byte
     pid      |-> 0,
     p        |-> 0,         \* page being erased
     startPage |-> 0,
     endPage  |-> 0,
     addr     |-> 0,         \* write cursor
     minAddr  |-> 0,
     maxAddr  |-> 0,
     mem      |-> EmptyMap,  \* parseHex's map (app.js)
     firmware |-> <<>>,      \* parseHex's array (part_001, part_002)
     waddr    |-> 0,         \* blWrite's arguments
     wdata    |-> <<>>,
     caller   |-> "flash",   \* who called blWrite
     final    |-> "none",    \* the final event: none, success, error
     err      |-> "",        \* the error's message
     errPage  |-> 0,
     \* history, read by the properties only
     phase    |-> 0,         \* the phase of the last write: 1 passthrough .. 6 write
     cnt      |-> [k \in Kinds |-> 0],   \* frames / commands started, by kind
     nSend    |-> 0,         \* writer.write calls
     nRecv    |-> 0,         \* chunks received
     allAck   |-> TRUE,      \* every read so far returned the single byte ACK
     odd      |-> 0,         \* chunks other than <<ACK>> received since the last write
     synced   |-> FALSE,     \* a sync byte was answered with ACK
     idDone   |-> FALSE,     \* GET_ID is over
     erased   |-> 0,         \* erase exchanges answered with ACK
     wNackAt  |-> 0 - 1,     \* write commands sent when a write stage was first NACKed
     eNackAt  |-> 0 - 1,     \* erase commands sent when an erase stage was first NACKed
     eNackPage |-> 0 - 1,    \* the page of that erase
     wAcks    |-> 0,         \* stages of the current blWrite call answered with ACK
     idTail   |-> 0 - 1,     \* the byte read after the ID bytes of GET_ID
     rest     |-> <<>>]      \* the bytes of the last chunk that value[0] left behind

\* the chunks a read can return
DeviceChunks == {<<ACK>>, <<NACK>>, <<0>>, <<ACK, 0, 4, ACK>>}

\* writer.write(new Uint8Array(bytes)), w calls in a row, in phase ph
Sent(s, ph, w) == [s EXCEPT !.phase = ph, !.nSend = @ + w, !.odd = 0]

\* ... the first of which starts a frame or command of kind k
Started(s, ph, k, w) == [Sent(s, ph, w) EXCEPT !.cnt[k] = @ + 1]

\* the handler suspends in reader.read()
Reading(s) == [s EXCEPT !.rd = "wait", !.expired = FALSE, !.rest = <<>>]

\* the handler goes on at label
Goto(s, label) ==
    [s EXCEPT !.pc = label, !.rd = "none", !.ret = 0, !.expired = FALSE, !.rest = <<>>]

\* an exception reaches the handler's catch: the error event
Throw(s, msg) ==
    [Goto(s, "error") EXCEPT !.final = "error", !.err = msg]

\* every byte other than ACK counts as NACK
WaitAckLax(s) ==
    IF s.rd = "timeout" THEN "timeout"
    ELSE IF s.ret = ACK THEN "ack"
    ELSE "nack"

\* waitAck of app.js on the result of readByte
WaitAck(s) ==
    IF s.rd = "timeout" THEN "timeout"
    ELSE IF s.ret = ACK THEN "ack"
    ELSE IF s.ret = NACK THEN "nack"
    ELSE "invalid"

ThrowOf(s, w) ==
    IF w = "timeout" THEN Throw(s, "Read timeout") ELSE Throw(s, "Invalid response")

Resolved(s) == s.rd \in {"got", "timeout", "null", "typeerror"}

Put(r, bytes) == wire' = [by |-> r, bytes |-> Uint8Array(bytes)]

-----------------------------------------------------------------------------
(* The serial port: the device and the readable stream *)

EraseReads == {"erase_cmd", "erase_ack"}
BlWriteReads == {"write_cmd", "write_addr", "write_data"}
WriteReads == BlWriteReads \cup {"wcmd_rd", "waddr_rd", "wdata_rd"}

\* the history of run s after chunk c was received
Noted(s, c) ==
    [s EXCEPT !.nRecv = @ + 1,
              !.allAck = @ /\ c = <<ACK>>,
              !.odd = IF c = <<ACK>> THEN @ ELSE @ + 1,
              !.synced = @ \/ (s.pc = "sync_rd" /\ c[1] = ACK),
              !.eNackAt = IF @ < 0 /\ s.pc \in EraseReads /\ c[1] = NACK
                          THEN s.cnt["erase"] ELSE @,
              !.eNackPage = IF s.eNackAt < 0 /\ s.pc \in EraseReads /\ c[1] = NACK
                            THEN s.p ELSE @,
              !.wNackAt = IF @ < 0 /\ s.pc \in WriteReads /\ c[1] = NACK
                          THEN s.cnt["write"] ELSE @,
              !.wAcks = IF s.pc \in BlWriteReads /\ c[1] = ACK THEN @ + 1 ELSE @,
              !.idTail = IF s.pc = "getid_tail" THEN c[1] ELSE @,
              !.rest = Tail(c)]

\* reader.read() of the oldest pending read resolves with chunk c
Deliver(r, c) ==
    /\ readQ # <<>> /\ Head(readQ) = r
    /\ run[r].rd = "wait"
    /\ ~streamDone
    /\ c = <<ACK>> \/ run[r].odd < MaxOdd
    /\ run' = [run EXCEPT ![r] = Noted([@ EXCEPT !.rd = "got", !.ret = c[1],
                                                  !.expired = FALSE], c)]
    /\ readQ' = Tail(readQ)
    /\ UNCHANGED <<variant, call, wire, streamDone>>

\* the readable stream ends (the port is gone)
StreamEnd ==
    /\ ~streamDone
    /\ streamDone' = TRUE
    /\ UNCHANGED <<variant, call, run, readQ, wire>>

\* reader.read() resolves with no value.  readByte of app.js reads again
\* until its time is over and then throws; readResponse of part_001 returns
\* null; readByte of part_002 throws on value[0].
ReadEnded(r) ==
    /\ readQ # <<>> /\ Head(readQ) = r
    /\ run[r].rd = "wait"
    /\ streamDone
    /\ IF variant = "app" /\ ~run[r].expired
       THEN /\ readQ' = Append(Tail(readQ), r)
            /\ UNCHANGED run
       ELSE /\ readQ' = Tail(readQ)
            /\ run' = [run EXCEPT ![r] = [@ EXCEPT !.allAck = FALSE,
                          !.rd = IF variant = "app" THEN "timeout"
                                 ELSE IF variant = "p1" THEN "null"
                                 ELSE "typeerror"]]
    /\ UNCHANGED <<variant, call, wire, streamDone>>

\* the timeout of the pending read elapses.  Nothing in the three pages
\* resolves or cancels the read when it does.
Tick(r) ==
    /\ run[r].rd = "wait"
    /\ ~run[r].expired
    /\ run' = [run EXCEPT ![r] = [@ EXCEPT !.expired = TRUE]]
    /\ UNCHANGED <<variant, call, readQ, wire, streamDone>>

-----------------------------------------------------------------------------
(* app.js *)

MspPassFrame ==
    LET data == <<36, 88, 60, 0, 245, 0, 2, 0, 254, 17>>
    IN  data \o <<mspCrc8D5(SubSeq(data, 4, Len(data)))>>

MspBootFrame ==
    LET data == <<36, 88, 60, 0, 68, 0, 0, 0>>
    IN  data \o <<mspCrc8D5(SubSeq(data, 4, Len(data)))>>

\* the two bytes of blSendCmd(cmd)
CmdBytes(cmd) == <<cmd, Xor(cmd, 255)>>

\* btnStart.onclick up to file.text()
Click(r, f) ==
    /\ variant = "app"
    /\ run[r].pc = "idle"
    /\ run' = [run EXCEPT ![r] =
                 IF f = NoFile THEN Throw(@, "HEX not selected")
                 ELSE [@ EXCEPT !.pc = "pass", !.file = f]]
    /\ UNCHANGED <<variant, call, readQ, wire, streamDone>>

mspPassthrough(r) ==
    /\ variant = "app"
    /\ run[r].pc = "pass"
    /\ Put(r, MspPassFrame)
    /\ run' = [run EXCEPT ![r] = Goto(Started(@, 1, "msp", 1), "boot")]
    /\ UNCHANGED <<variant, call, readQ, streamDone>>

mspBootloaderStart(r) ==
    /\ variant = "app"
    /\ run[r].pc = "boot"
    /\ Put(r, MspBootFrame)
    /\ run' = [run EXCEPT ![r] = [Goto(Started(@, 2, "msp", 1), "sync") EXCEPT !.i = 0]]
    /\ UNCHANGED <<variant, call, readQ, streamDone>>

\* the loop test of blSync
SyncMore(i) == i < SYNC_ATTEMPTS

\* blSync: the head of the loop, up to readByte(500)
blSync(r) ==
    /\ variant = "app"
    /\ run[r].pc = "sync"
    /\ IF SyncMore(run[r].i)
       THEN /\ Put(r, <<127>>)
            /\ run' = [run EXCEPT ![r] =
                         Reading([Started(@, 3, "sync", 1) EXCEPT !.pc = "sync_rd"])]
            /\ readQ' = Append(readQ, r)
       ELSE /\ run' = [run EXCEPT ![r] = Throw(@, "Sync failed")]
            /\ UNCHANGED <<readQ, wire>>
    /\ UNCHANGED <<variant, call, streamDone>>

\* any byte that arrives ends the sync loop
SyncOkAny(s) == s.rd = "got"

\* the test of blSync on the byte read
SyncOk(s) == s.rd = "got" /\ s.ret = ACK

\* blSync: after readByte(500) returned or threw
blSyncReply(r) ==
    /\ variant = "app"
    /\ run[r].pc = "sync_rd"
    /\ Resolved(run[r])
    /\ run' = [run EXCEPT ![r] =
                 IF SyncOk(@)
                 THEN [Goto(@, "getid") EXCEPT !.i = 0]
                 ELSE [Goto(@, "sync") EXCEPT !.i = @ + 1]]
    /\ UNCHANGED <<variant, call, readQ, wire, streamDone>>

\* blGetID: blSendCmd(0x02) up to waitAck's read
blGetID(r) ==
    /\ variant = "app"
    /\ run[r].pc = "getid"
    /\ Put(r, CmdBytes(2))
    /\ run' = [run EXCEPT ![r] =
                 Reading([Started(@, 4, "getid", 1) EXCEPT !.pc = "getid_cmd"])]
    /\ readQ' = Append(readQ, r)
    /\ UNCHANGED <<variant, call, streamDone>>

\* blGetID: the command's answer, then readByte for n
blGetIDCmd(r) ==
    /\ variant = "app"
    /\ run[r].pc = "getid_cmd"
    /\ Resolved(run[r])
    /\ LET w == WaitAck(run[r])
       IN  IF w = "ack"
           THEN /\ run' = [run EXCEPT ![r] = Reading([@ EXCEPT !.pc = "getid_len"])]
                /\ readQ' = Append(readQ, r)
           ELSE /\ run' = [run EXCEPT ![r] =
                             IF w = "nack" THEN Throw(@, "GET_ID failed")
                             ELSE ThrowOf(@, w)]
                /\ UNCHANGED readQ
    /\ UNCHANGED <<variant, call, wire, streamDone>>

\* blGetID: n was read; the first readByte of the loop
blGetIDLen(r) ==
    /\ variant = "app"
    /\ run[r].pc = "getid_len"
    /\ Resolved(run[r])
    /\ IF run[r].rd = "got"
       THEN /\ run' = [run EXCEPT ![r] =
                         Reading([@ EXCEPT !.pc = "getid_pid", !.n = run[r].ret,
                                           !.pid = 0, !.i = 0])]
            /\ readQ' = Append(readQ, r)
       ELSE /\ run' = [run EXCEPT ![r] = Throw(@, "Read timeout")]
            /\ UNCHANGED readQ
    /\ UNCHANGED <<variant, call, wire, streamDone>>

\* blGetID: one byte of the ID was read; the next, or waitAck after the last
blGetIDPid(r) ==
    /\ variant = "app"
    /\ run[r].pc = "getid_pid"
    /\ Resolved(run[r])
    /\ IF run[r].rd = "got"
       THEN /\ run' = [run EXCEPT ![r] =
                         Reading([@ EXCEPT !.pid = Shl8Or(@, run[r].ret), !.i = @ + 1,
                                    !.pc = IF run[r].i + 1 < run[r].n + 1
                                           THEN "getid_pid" ELSE "getid_tail"])]
            /\ readQ' = Append(readQ, r)
       ELSE /\ run' = [run EXCEPT ![r] = Throw(@, "Read timeout")]
            /\ UNCHANGED readQ
    /\ UNCHANGED <<variant, call, wire, streamDone>>

\* blGetID: the trailing waitAck, whose result is not looked at
blGetIDTail(r) ==
    /\ variant = "app"
    /\ run[r].pc = "getid_tail"
    /\ Resolved(run[r])
    /\ LET w == WaitAck(run[r])
       IN  run' = [run EXCEPT ![r] =
                     IF w \in {"ack", "nack"}
                     THEN [Goto(@, "flash") EXCEPT !.idDone = TRUE, !.pid = 0,
                                                   !.n = 0, !.i = 0]
                     ELSE ThrowOf(@, w)]
    /\ UNCHANGED <<variant, call, readQ, wire, streamDone>>

\* the chunk with 0 where the image has no byte
ChunkAtZero(mem, addr, maxAddr) ==
    [k \in 1 .. Min2(WRITE_CHUNK, maxAddr - addr + 1) |->
        IF (addr + k - 1) \in DOMAIN mem THEN mem[addr + k - 1] ELSE 0]

\* the chunk flash builds at addr: up to WRITE_CHUNK bytes, 0xFF where the
\* image has none, ending after maxAddr
ChunkAt(mem, addr, maxAddr) ==
    [k \in 1 .. Min2(WRITE_CHUNK, maxAddr - addr + 1) |->
        IF (addr + k - 1) \in DOMAIN mem THEN mem[addr + k - 1] ELSE 255]

\* what parseHex makes of each file
HexImage == [f \in Files \cup {NoFile} |-> parseHex(FileText(f))]

\* flash: parseHex and the page range
flash(r) ==
    /\ variant = "app"
    /\ run[r].pc = "flash"
    /\ LET mem     == HexImage[run[r].file]
           minAddr == MathMin(DOMAIN mem)
           maxAddr == MathMax(DOMAIN mem)
       IN  run' = [run EXCEPT ![r] =
                     [Goto(@, "erase") EXCEPT !.mem = mem,
                          !.minAddr = minAddr, !.maxAddr = maxAddr,
                          !.startPage = PageOf(minAddr), !.endPage = PageOf(maxAddr),
                          !.p = PageOf(minAddr)]]
    /\ UNCHANGED <<variant, call, readQ, wire, streamDone>>

\* the erase loop stops one page early
EraseMoreLt(s) == s.p < s.endPage

\* the test of the erase loop of flash
EraseMore(s) == Leq(s.p, s.endPage)

\* flash: the head of the erase loop; blErasePage(p) up to waitAck's read
blErasePage(r) ==
    /\ variant = "app"
    /\ run[r].pc = "erase"
    /\ IF EraseMore(run[r])
       THEN /\ Put(r, CmdBytes(68))
            /\ run' = [run EXCEPT ![r] =
                         Reading([Started(@, 5, "erase", 1) EXCEPT !.pc = "erase_cmd"])]
            /\ readQ' = Append(readQ, r)
       ELSE /\ run' = [run EXCEPT ![r] = [Goto(@, "write") EXCEPT !.addr = run[r].minAddr]]
            /\ UNCHANGED <<readQ, wire>>
    /\ UNCHANGED <<variant, call, streamDone>>

\* the two bytes of the page in the other order
ErasePayloadSwapped(page) == <<0, 0, ByteOf(page, 0), ByteOf(page, 8)>>

\* blErasePage: the four bytes that name the page
ErasePayload(page) == <<0, 0, ByteOf(page, 8), ByteOf(page, 0)>>

\* blErasePage: the command's answer, then the page and its checksum
blErasePageCmd(r) ==
    /\ variant = "app"
    /\ run[r].pc = "erase_cmd"
    /\ Resolved(run[r])
    /\ LET w == WaitAck(run[r])
           payload == ErasePayload(run[r].p)
       IN  IF w = "ack"
           THEN /\ Put(r, payload \o <<xorChecksum(payload)>>)
                /\ run' = [run EXCEPT ![r] =
                             Reading([Sent(@, 5, 2) EXCEPT !.pc = "erase_ack"])]
                /\ readQ' = Append(readQ, r)
           ELSE /\ run' = [run EXCEPT ![r] =
                             IF w = "nack"
                             THEN [Throw(@, "Erase failed")
                                      EXCEPT !.errPage = run[r].p]
                             ELSE ThrowOf(@, w)]
                /\ UNCHANGED <<readQ, wire>>
    /\ UNCHANGED <<variant, call, streamDone>>

\* the erase answer is looked at only for its arrival
EraseOkAny(w) == w \in {"ack", "nack"}

\* blErasePage returns; flash goes on with the next page or throws
EraseOk(w) == w = "ack"

blErasePageAck(r) ==
    /\ variant = "app"
    /\ run[r].pc = "erase_ack"
    /\ Resolved(run[r])
    /\ LET w == WaitAck(run[r])
       IN  run' = [run EXCEPT ![r] =
                     IF EraseOk(w)
                     THEN [Goto(@, "erase") EXCEPT !.p = @ + 1,
                               !.erased = IF w = "ack" THEN @ + 1 ELSE @]
                     ELSE IF w = "nack"
                     THEN [Throw(@, "Erase failed")
                              EXCEPT !.errPage = run[r].p]
                     ELSE ThrowOf(@, w)]
    /\ UNCHANGED <<variant, call, readQ, wire, streamDone>>

\* the test of the write loop of flash
WriteMore(s) == Leq(s.addr, s.maxAddr)

\* flash: the head of the write loop, up to the call of blWrite
flashWrite(r) ==
    /\ variant = "app"
    /\ run[r].pc = "write"
    /\ LET s == run[r]
           chunk == ChunkAt(s.mem, s.addr, s.maxAddr)
       IN  run' = [run EXCEPT ![r] =
                     IF WriteMore(s)
                     THEN [Goto(@, "blwrite") EXCEPT !.addr = @ + Len(chunk),
                               !.waddr = s.addr, !.wdata = chunk, !.caller = "flash"]
                     ELSE [Goto(@, "done") EXCEPT !.final = "success"]]
    /\ UNCHANGED <<variant, call, readQ, wire, streamDone>>

\* blWrite: blSendCmd(0x31) up to waitAck's read
blWrite(r) ==
    /\ variant = "app"
    /\ run[r].pc = "blwrite"
    /\ Put(r, CmdBytes(49))
    /\ run' = [run EXCEPT ![r] =
                 Reading([Started(@, 6, "write", 1) EXCEPT !.pc = "write_cmd",
                                                            !.wAcks = 0])]
    /\ readQ' = Append(readQ, r)
    /\ UNCHANGED <<variant, call, streamDone>>

\* the address with its least significant byte first
AddrBytesLE(addr) == <<ByteOf(addr, 0), ByteOf(addr, 8), ByteOf(addr, 16), ByteOf(addr, 24)>>

\* blWrite: the four bytes of the address
AddrBytes(addr) == <<ByteOf(addr, 24), ByteOf(addr, 16), ByteOf(addr, 8), ByteOf(addr, 0)>>

\* [data.length - 1, ...data]
DataPayload(data) == <<Len(data) - 1>> \o data

\* blWrite returns ok to the caller: flash goes round its loop or throws
Returned(s, ok) ==
    IF s.caller = "flash"
    THEN IF ok THEN Goto(s, "write") ELSE Throw(s, "Write failed")
    ELSE Goto(s, IF ok THEN "returned_true" ELSE "returned_false")

\* blWrite: the command's answer, then the address and its checksum
blWriteCmd(r) ==
    /\ variant = "app"
    /\ run[r].pc = "write_cmd"
    /\ Resolved(run[r])
    /\ LET w == WaitAck(run[r])
           addrBytes == AddrBytes(run[r].waddr)
       IN  IF w = "ack"
           THEN /\ Put(r, addrBytes \o <<xorChecksum(addrBytes)>>)
                /\ run' = [run EXCEPT ![r] =
                             Reading([Sent(@, 6, 2) EXCEPT !.pc = "write_addr"])]
                /\ readQ' = Append(readQ, r)
           ELSE /\ run' = [run EXCEPT ![r] =
                             IF w = "nack" THEN Returned(@, FALSE)
                             ELSE ThrowOf(@, w)]
                /\ UNCHANGED <<readQ, wire>>
    /\ UNCHANGED <<variant, call, streamDone>>

\* blWrite: the address's answer, then the data and its checksum
blWriteAddr(r) ==
    /\ variant = "app"
    /\ run[r].pc = "write_addr"
    /\ Resolved(run[r])
    /\ LET w == WaitAck(run[r])
           payload == DataPayload(run[r].wdata)
       IN  IF w = "ack"
           THEN /\ Put(r, payload \o <<xorChecksum(payload)>>)
                /\ run' = [run EXCEPT ![r] =
                             Reading([Sent(@, 6, 2) EXCEPT !.pc = "write_data"])]
                /\ readQ' = Append(readQ, r)
           ELSE /\ run' = [run EXCEPT ![r] =
                             IF w = "nack" THEN Returned(@, FALSE)
                             ELSE ThrowOf(@, w)]
                /\ UNCHANGED <<readQ, wire>>
    /\ UNCHANGED <<variant, call, streamDone>>

\* blWrite: the data's answer
blWriteData(r) ==
    /\ variant = "app"
    /\ run[r].pc = "write_data"
    /\ Resolved(run[r])
    /\ LET w == WaitAck(run[r])
       IN  run' = [run EXCEPT ![r] =
                     IF w = "ack" THEN Returned(@, TRUE)
                     ELSE IF w = "nack" THEN Returned(@, FALSE)
                     ELSE ThrowOf(@, w)]
    /\ UNCHANGED <<variant, call, readQ, wire, streamDone>>

-----------------------------------------------------------------------------
(* part_001: flashBtn.onclick *)

\* firmware.slice(i, i + WRITE_CHUNK) with the WRITE_CHUNK of part_001 and part_002
Slice(firmware, i) == SubSeq(firmware, i + 1, Min2(i + P_WRITE_CHUNK, Len(firmware)))

\* !res || res[0] !== 0x79
P1NotAck(s) == s.rd = "null" \/ s.ret # ACK

P1Click(r, f) ==
    /\ variant = "p1"
    /\ run[r].pc = "idle"
    /\ run' = [run EXCEPT ![r] =
                 IF f = NoFile THEN Goto(@, "alerted")
                 ELSE IF P1ParseThrows(FileText(f))
                 THEN Throw([@ EXCEPT !.file = f], "TypeError")
                 ELSE [@ EXCEPT !.pc = "pass", !.file = f,
                                !.firmware = P1ParseHex(FileText(f))]]
    /\ UNCHANGED <<variant, call, readQ, wire, streamDone>>

P1Passthrough(r) ==
    /\ variant = "p1"
    /\ run[r].pc = "pass"
    /\ LET mspPass == <<36, 88, 60, 0, 245, 0, 2, 0, 254, 17>>
       IN  Put(r, mspPass \o <<msp_crc8_d5(SubSeq(mspPass, 4, 10))>>)
    /\ run' = [run EXCEPT ![r] = Goto(Started(@, 1, "msp", 1), "boot")]
    /\ UNCHANGED <<variant, call, readQ, streamDone>>

P1BootloaderStart(r) ==
    /\ variant = "p1"
    /\ run[r].pc = "boot"
    /\ LET mspBoot == <<36, 88, 60, 0, 68, 0, 0, 0>>
       IN  Put(r, mspBoot \o <<msp_crc8_d5(SubSeq(mspBoot, 4, 8))>>)
    /\ run' = [run EXCEPT ![r] = Goto(Started(@, 2, "msp", 1), "sync")]
    /\ UNCHANGED <<variant, call, readQ, streamDone>>

\* step 4: 0x7F and readResponse
P1Sync(r) ==
    /\ variant = "p1"
    /\ run[r].pc = "sync"
    /\ Put(r, <<127>>)
    /\ run' = [run EXCEPT ![r] =
                 Reading([Started(@, 3, "sync", 1) EXCEPT !.pc = "sync_rd"])]
    /\ readQ' = Append(readQ, r)
    /\ UNCHANGED <<variant, call, streamDone>>

\* step 5: GET ID and readResponse
P1GetId(r) ==
    /\ variant = "p1"
    /\ run[r].pc = "sync_rd"
    /\ Resolved(run[r])
    /\ IF P1NotAck(run[r])
       THEN /\ run' = [run EXCEPT ![r] = Throw(@, "ACK(0x79) not received for Sync.")]
            /\ UNCHANGED <<readQ, wire>>
       ELSE /\ Put(r, <<2, 253>>)
            /\ run' = [run EXCEPT ![r] =
                         Reading([Started(@, 4, "getid", 1) EXCEPT !.pc = "getid_rd"])]
            /\ readQ' = Append(readQ, r)
    /\ UNCHANGED <<variant, call, streamDone>>

\* step 6: the global erase and readResponse(5000)
P1Erase(r) ==
    /\ variant = "p1"
    /\ run[r].pc = "getid_rd"
    /\ Resolved(run[r])
    /\ IF P1NotAck(run[r])
       THEN /\ run' = [run EXCEPT ![r] = Throw(@, "Failed to get ID.")]
            /\ UNCHANGED <<readQ, wire>>
       ELSE /\ Put(r, <<68, 187>> \o <<255, 255, 0>>)
            /\ run' = [run EXCEPT ![r] =
                         Reading([Started(@, 5, "erase", 2) EXCEPT !.pc = "erase_rd",
                                                                   !.idDone = TRUE])]
            /\ readQ' = Append(readQ, r)
    /\ UNCHANGED <<variant, call, streamDone>>

\* the erase's answer is not looked at
P1EraseReply(r) ==
    /\ variant = "p1"
    /\ run[r].pc = "erase_rd"
    /\ Resolved(run[r])
    /\ run' = [run EXCEPT ![r] =
                 [Goto(@, "loop") EXCEPT !.i = 0,
                      !.erased = IF run[r].rd = "got" /\ run[r].ret = ACK THEN 1 ELSE 0]]
    /\ UNCHANGED <<variant, call, readQ, wire, streamDone>>

\* step 7: the head of the loop; A. the write command
P1WriteLoop(r) ==
    /\ variant = "p1"
    /\ run[r].pc = "loop"
    /\ IF run[r].i < Len(run[r].firmware)
       THEN /\ Put(r, <<49, 206>>)
            /\ run' = [run EXCEPT ![r] =
                         Reading([Started(@, 6, "write", 1) EXCEPT !.pc = "wcmd_rd",
                              !.waddr = FLASH_BASE + run[r].i,
                              !.wdata = Slice(run[r].firmware, run[r].i)])]
            /\ readQ' = Append(readQ, r)
       ELSE /\ run' = [run EXCEPT ![r] = [Goto(@, "done") EXCEPT !.final = "success"]]
            /\ UNCHANGED <<readQ, wire>>
    /\ UNCHANGED <<variant, call, streamDone>>

\* (await readResponse())[0] !== 0x79: a TypeError on null, else the NACK error
P1Check(s, msg) ==
    IF s.rd = "null" THEN Throw(s, "TypeError")
    ELSE Throw(s, msg)

\* B. the address
P1WriteAddr(r) ==
    /\ variant = "p1"
    /\ run[r].pc = "wcmd_rd"
    /\ Resolved(run[r])
    /\ LET addrBytes == AddrBytes(run[r].waddr)
       IN  IF P1NotAck(run[r])
           THEN /\ run' = [run EXCEPT ![r] = P1Check(@, "Write Cmd NACK")]
                /\ UNCHANGED <<readQ, wire>>
           ELSE /\ Put(r, addrBytes \o <<ToUint8(xorChecksum(addrBytes))>>)
                /\ run' = [run EXCEPT ![r] =
                             Reading([Sent(@, 6, 1) EXCEPT !.pc = "waddr_rd"])]
                /\ readQ' = Append(readQ, r)
    /\ UNCHANGED <<variant, call, streamDone>>

\* C. the data
P1WriteData(r) ==
    /\ variant = "p1"
    /\ run[r].pc = "waddr_rd"
    /\ Resolved(run[r])
    /\ LET dataToSign == Uint8Array(DataPayload(run[r].wdata))
       IN  IF P1NotAck(run[r])
           THEN /\ run' = [run EXCEPT ![r] = P1Check(@, "Address NACK")]
                /\ UNCHANGED <<readQ, wire>>
           ELSE /\ Put(r, dataToSign \o <<ToUint8(xorChecksum(dataToSign))>>)
                /\ run' = [run EXCEPT ![r] =
                             Reading([Sent(@, 6, 1) EXCEPT !.pc = "wdata_rd"])]
                /\ readQ' = Append(readQ, r)
    /\ UNCHANGED <<variant, call, streamDone>>

\* the data's answer; i += WRITE_CHUNK
P1WriteNext(r) ==
    /\ variant = "p1"
    /\ run[r].pc = "wdata_rd"
    /\ Resolved(run[r])
    /\ run' = [run EXCEPT ![r] =
                 IF P1NotAck(@) THEN P1Check(@, "Data NACK")
                 ELSE [Goto(@, "loop") EXCEPT !.i = @ + P_WRITE_CHUNK]]
    /\ UNCHANGED <<variant, call, readQ, wire, streamDone>>

P1Step(r) ==
    \/ \E f \in Files \cup {NoFile} : P1Click(r, f)
    \/ P1Passthrough(r)
    \/ P1BootloaderStart(r)
    \/ P1Sync(r)
    \/ P1GetId(r)
    \/ P1Erase(r)
    \/ P1EraseReply(r)
    \/ P1WriteLoop(r)
    \/ P1WriteAddr(r)
    \/ P1WriteData(r)
    \/ P1WriteNext(r)

-----------------------------------------------------------------------------
(* part_002: flashBtn.onclick.  Its readByte throws only when the read      *)
(* resolves without a value; the Error its timer throws is thrown in the    *)
(* timer's callback, outside the handler.                                   *)

P2Click(r, f) ==
    /\ variant = "p2"
    /\ run[r].pc = "idle"
    /\ run' = [run EXCEPT ![r] =
                 IF f = NoFile THEN Goto(@, "alerted")
                 ELSE IF P2ParseThrows(FileText(f))
                 THEN Throw([@ EXCEPT !.file = f], "TypeError")
                 ELSE [@ EXCEPT !.pc = "pass", !.file = f,
                                !.firmware = P2ParseHex(FileText(f))]]
    /\ UNCHANGED <<variant, call, readQ, wire, streamDone>>

P2Passthrough(r) ==
    /\ variant = "p2"
    /\ run[r].pc = "pass"
    /\ LET mspPass == <<36, 88, 60, 0, 245, 0, 2, 0, 254, 17>>
       IN  Put(r, mspPass \o <<P2_msp_crc8_d5(SubSeq(mspPass, 4, Len(mspPass)))>>)
    /\ run' = [run EXCEPT ![r] = Goto(Started(@, 1, "msp", 1), "boot")]
    /\ UNCHANGED <<variant, call, readQ, streamDone>>

P2BootloaderStart(r) ==
    /\ variant = "p2"
    /\ run[r].pc = "boot"
    /\ LET mspBoot == <<36, 88, 60, 0, 68, 0, 0, 0>>
       IN  Put(r, mspBoot \o <<P2_msp_crc8_d5(SubSeq(mspBoot, 4, Len(mspBoot)))>>)
    /\ run' = [run EXCEPT ![r] = Goto(Started(@, 2, "msp", 1), "sync")]
    /\ UNCHANGED <<variant, call, readQ, streamDone>>

\* step 4: 0x7F and readByte
P2Sync(r) ==
    /\ variant = "p2"
    /\ run[r].pc = "sync"
    /\ Put(r, <<127>>)
    /\ run' = [run EXCEPT ![r] =
                 Reading([Started(@, 3, "sync", 1) EXCEPT !.pc = "sync_rd"])]
    /\ readQ' = Append(readQ, r)
    /\ UNCHANGED <<variant, call, streamDone>>

\* step 5: GET ID and readByte
P2GetId(r) ==
    /\ variant = "p2"
    /\ run[r].pc = "sync_rd"
    /\ Resolved(run[r])
    /\ IF run[r].rd = "typeerror" \/ run[r].ret # ACK
       THEN /\ run' = [run EXCEPT ![r] =
                         Throw(@, IF @.rd = "typeerror" THEN "TypeError" ELSE "Sync Failed")]
            /\ UNCHANGED <<readQ, wire>>
       ELSE /\ Put(r, <<2, 253>>)
            /\ run' = [run EXCEPT ![r] =
                         Reading([Started(@, 4, "getid", 1) EXCEPT !.pc = "getid_rd",
                                                                   !.i = 0])]
            /\ readQ' = Append(readQ, r)
    /\ UNCHANGED <<variant, call, streamDone>>

\* the answer to GET ID: on ACK three more readByte (len, id, the last ACK),
\* then, or at once on another byte, the write loop
P2GetIdBytes(r) ==
    /\ variant = "p2"
    /\ run[r].pc = "getid_rd"
    /\ Resolved(run[r])
    /\ LET s == run[r]
       IN  IF s.rd = "typeerror"
           THEN /\ run' = [run EXCEPT ![r] = Throw(@, "TypeError")]
                /\ UNCHANGED readQ
           ELSE IF (s.i = 0 /\ s.ret # ACK) \/ s.i = 3
           THEN /\ run' = [run EXCEPT ![r] = [Goto(@, "loop") EXCEPT !.i = 0,
                                                                     !.idDone = TRUE]]
                /\ UNCHANGED readQ
           ELSE /\ run' = [run EXCEPT ![r] = Reading([@ EXCEPT !.i = @ + 1])]
                /\ readQ' = Append(readQ, r)
    /\ UNCHANGED <<variant, call, wire, streamDone>>

\* the write loop: the write command and readByte
P2WriteLoop(r) ==
    /\ variant = "p2"
    /\ run[r].pc = "loop"
    /\ IF run[r].i < Len(run[r].firmware)
       THEN /\ Put(r, <<49, 206>>)
            /\ run' = [run EXCEPT ![r] =
                         Reading([Started(@, 6, "write", 1) EXCEPT !.pc = "wcmd_rd",
                              !.waddr = FLASH_BASE + run[r].i,
                              !.wdata = Slice(run[r].firmware, run[r].i)])]
            /\ readQ' = Append(readQ, r)
       ELSE /\ run' = [run EXCEPT ![r] = [Goto(@, "done") EXCEPT !.final = "success"]]
            /\ UNCHANGED <<readQ, wire>>
    /\ UNCHANGED <<variant, call, streamDone>>

\* the address and its checksum
P2WriteAddr(r) ==
    /\ variant = "p2"
    /\ run[r].pc = "wcmd_rd"
    /\ Resolved(run[r])
    /\ LET addrBytes == AddrBytes(run[r].waddr)
       IN  IF run[r].rd = "typeerror"
           THEN /\ run' = [run EXCEPT ![r] = Throw(@, "TypeError")]
                /\ UNCHANGED <<readQ, wire>>
           ELSE /\ Put(r, addrBytes \o <<xorChecksum(addrBytes)>>)
                /\ run' = [run EXCEPT ![r] =
                             Reading([Sent(@, 6, 2) EXCEPT !.pc = "waddr_rd"])]
                /\ readQ' = Append(readQ, r)
    /\ UNCHANGED <<variant, call, streamDone>>

\* the data and its checksum
P2WriteData(r) ==
    /\ variant = "p2"
    /\ run[r].pc = "waddr_rd"
    /\ Resolved(run[r])
    /\ LET dataPayload == Uint8Array(DataPayload(run[r].wdata))
       IN  IF run[r].rd = "typeerror"
           THEN /\ run' = [run EXCEPT ![r] = Throw(@, "TypeError")]
                /\ UNCHANGED <<readQ, wire>>
           ELSE /\ Put(r, dataPayload \o <<xorChecksum(dataPayload)>>)
                /\ run' = [run EXCEPT ![r] =
                             Reading([Sent(@, 6, 2) EXCEPT !.pc = "wdata_rd"])]
                /\ readQ' = Append(readQ, r)
    /\ UNCHANGED <<variant, call, streamDone>>

\* the data's answer, dropped; i += WRITE_CHUNK
P2WriteNext(r) ==
    /\ variant = "p2"
    /\ run[r].pc = "wdata_rd"
    /\ Resolved(run[r])
    /\ run' = [run EXCEPT ![r] =
                 IF @.rd = "typeerror" THEN Throw(@, "TypeError")
                 ELSE [Goto(@, "loop") EXCEPT !.i = @ + P_WRITE_CHUNK]]
    /\ UNCHANGED <<variant, call, readQ, wire, streamDone>>

P2Step(r) ==
    \/ \E f \in Files \cup {NoFile} : P2Click(r, f)
    \/ P2Passthrough(r)
    \/ P2BootloaderStart(r)
    \/ P2Sync(r)
    \/ P2GetId(r)
    \/ P2GetIdBytes(r)
    \/ P2WriteLoop(r)
    \/ P2WriteAddr(r)
    \/ P2WriteData(r)
    \/ P2WriteNext(r)

AppStep(r) ==
    \/ mspPassthrough(r)
    \/ mspBootloaderStart(r)
    \/ blSync(r)
    \/ blSyncReply(r)
    \/ blGetID(r)
    \/ blGetIDCmd(r)
    \/ blGetIDLen(r)
    \/ blGetIDPid(r)
    \/ blGetIDTail(r)
    \/ flash(r)
    \/ blErasePage(r)
    \/ blErasePageCmd(r)
    \/ blErasePageAck(r)
    \/ flashWrite(r)
    \/ blWrite(r)
    \/ blWriteCmd(r)
    \/ blWriteAddr(r)
    \/ blWriteData(r)

Port(r) ==
    \/ \E c \in DeviceChunks : Deliver(r, c)
    \/ ReadEnded(r)
    \/ Tick(r)

-----------------------------------------------------------------------------
(* One click *)

Init ==
    /\ variant \in {"app", "p1", "p2"}
    /\ run = [r \in Runs |-> BlankRun]
    /\ readQ = <<>>
    /\ wire = [by |-> 0, bytes |-> <<>>]
    /\ streamDone = FALSE
    /\ call = NoCall

Next ==
    \/ \E f \in Files \cup {NoFile} : Click(1, f)
    \/ AppStep(1)
    \/ P1Step(1)
    \/ P2Step(1)
    \/ Port(1)
    \/ StreamEnd

Spec == Init /\ [][Next]_vars

-----------------------------------------------------------------------------
(* app.js, the start button clicked again while a run is in flight.  The    *)
(* device answers every read with ACK.                                      *)

ClickFiles == {3, NoFile}

InitClicks ==
    /\ variant = "app"
    /\ run = [r \in Runs |-> BlankRun]
    /\ readQ = <<>>
    /\ wire = [by |-> 0, bytes |-> <<>>]
    /\ streamDone = FALSE
    /\ call = NoCall

NextClicks ==
    \/ \E r \in Runs : \E f \in ClickFiles : Click(r, f)
    \/ \E r \in Runs : AppStep(r)
    \/ \E r \in Runs : Deliver(r, <<ACK>>)
    \/ \E r \in Runs : ReadEnded(r)
    \/ \E r \in Runs : Tick(r)
    \/ StreamEnd

SpecClicks == InitClicks /\ [][NextClicks]_vars

-----------------------------------------------------------------------------
(* blWrite of app.js called on its own with data of any length *)

WriteLens == {0, 1, 32, 256, 257, 300}

InitWrite ==
    /\ variant = "app"
    /\ \E len \in WriteLens : \E a \in {FLASH_BASE, FLASH_BASE + 256} : \E b \in {0, 255} :
          run = [r \in Runs |->
                   IF r = 1
                   THEN [BlankRun EXCEPT !.pc = "blwrite", !.caller = "direct",
                                         !.waddr = a, !.wdata = Fill(len, b)]
                   ELSE BlankRun]
    /\ readQ = <<>>
    /\ wire = [by |-> 0, bytes |-> <<>>]
    /\ streamDone = FALSE
    /\ call = NoCall

NextWrite ==
    \/ blWrite(1)
    \/ blWriteCmd(1)
    \/ blWriteAddr(1)
    \/ blWriteData(1)
    \/ Port(1)
    \/ StreamEnd

SpecWrite == InitWrite /\ [][NextWrite]_vars

-----------------------------------------------------------------------------
(* parseHex of app.js called on its own, on every text of at most MaxLines  *)
(* lines.  A line is a well-formed record, given by its type, offset and    *)
(* bytes, or a line that does not start with ':'.                           *)

NoRecord == [t |-> 0 - 1, o |-> 0, d |-> <<>>]

ParseRecs ==
    {[t |-> 4, o |-> 0, d |-> <<8, 0>>],
     [t |-> 4, o |-> 0, d |-> <<128, 1>>],
     [t |-> 0, o |-> 0, d |-> <<17, 34>>],
     [t |-> 0, o |-> 1, d |-> <<51>>],
     [t |-> 0, o |-> 65535, d |-> <<68, 85>>],
     [t |-> 1, o |-> 0, d |-> <<>>],
     [t |-> 5, o |-> 0, d |-> <<0, 0, 0, 1>>],
     NoRecord}

\* the line of the text for a record
TextOf(rec) == IF rec = NoRecord THEN <<"0", "0">> ELSE Record(rec.t, rec.o, rec.d)

ParseTexts == UNION {[1 .. n -> ParseRecs] : n \in 0 .. MaxLines}

InitParse ==
    /\ variant = "app"
    /\ run = [r \in Runs |-> BlankRun]
    /\ readQ = <<>>
    /\ wire = [by |-> 0, bytes |-> <<>>]
    /\ streamDone = FALSE
    /\ \E recs \in ParseTexts :
          call = [fn |-> "parseHex", arg |-> recs, k |-> 0,
                  st |-> [mem |-> EmptyMap, base |-> 0],
                  done |-> FALSE, out |-> EmptyMap]

\* one iteration of the loop over the lines
ParseStep ==
    /\ call.fn = "parseHex"
    /\ call.k < Len(call.arg)
    /\ call' = [call EXCEPT !.k = @ + 1,
                            !.st = ParseLine(@, TextOf(call.arg[call.k + 1]))]
    /\ UNCHANGED <<variant, run, readQ, wire, streamDone>>

\* return mem
ParseReturn ==
    /\ call.fn = "parseHex"
    /\ call.k = Len(call.arg)
    /\ ~call.done
    /\ call' = [call EXCEPT !.done = TRUE,
                            !.out = parseHex([k \in 1 .. Len(call.arg) |-> TextOf(call.arg[k])])]
    /\ UNCHANGED <<variant, run, readQ, wire, streamDone>>

NextParse == ParseStep \/ ParseReturn

SpecParse == InitParse /\ [][NextParse]_vars

-----------------------------------------------------------------------------
(* The CRC functions of the three pages called on their own, each on every  *)
(* buffer of at most MaxCrcLen bytes                                        *)

CrcBytes == {0, 1, 128, 213, 255}

CrcBuffers == UNION {[1 .. n -> CrcBytes] : n \in 0 .. MaxCrcLen}

InitCrc ==
    /\ variant = "app"
    /\ run = [r \in Runs |-> BlankRun]
    /\ readQ = <<>>
    /\ wire = [by |-> 0, bytes |-> <<>>]
    /\ streamDone = FALSE
    /\ \E buf \in CrcBuffers :
          call = [fn |-> "crc", arg |-> buf, done |-> {},
                  out |-> [app |-> 0 - 1, p1 |-> 0 - 1, p2 |-> 0 - 1]]

\* mspCrc8D5(buf) of app.js
CrcApp ==
    /\ call.fn = "crc"
    /\ "app" \notin call.done
    /\ call' = [call EXCEPT !.done = @ \cup {"app"}, !.out.app = mspCrc8D5(call.arg)]
    /\ UNCHANGED <<variant, run, readQ, wire, streamDone>>

\* msp_crc8_d5(data) of part_001
CrcP1 ==
    /\ call.fn = "crc"
    /\ "p1" \notin call.done
    /\ call' = [call EXCEPT !.done = @ \cup {"p1"}, !.out.p1 = msp_crc8_d5(call.arg)]
    /\ UNCHANGED <<variant, run, readQ, wire, streamDone>>

\* msp_crc8_d5(data) of part_002
CrcP2 ==
    /\ call.fn = "crc"
    /\ "p2" \notin call.done
    /\ call' = [call EXCEPT !.done = @ \cup {"p2"}, !.out.p2 = P2_msp_crc8_d5(call.arg)]
    /\ UNCHANGED <<variant, run, readQ, wire, streamDone>>

NextCrc == CrcApp \/ CrcP1 \/ CrcP2

SpecCrc == InitCrc /\ [][NextCrc]_vars

-----------------------------------------------------------------------------
(* app.js flashing one file, the program and its timers scheduled fairly;   *)
(* the device is free to stay silent                                        *)

\* a file with four bytes of data and one with no data record
FairFiles == {3, 5}

InitFair ==
    /\ variant = "app"
    /\ run = [r \in Runs |-> BlankRun]
    /\ readQ = <<>>
    /\ wire = [by |-> 0, bytes |-> <<>>]
    /\ streamDone = FALSE
    /\ call = NoCall

NextFair ==
    \/ \E f \in FairFiles : Click(1, f)
    \/ AppStep(1)
    \/ Port(1)
    \/ StreamEnd

FairSpec ==
    /\ InitFair
    /\ [][NextFair]_vars
    /\ WF_vars(AppStep(1))
    /\ WF_vars(Tick(1))
    /\ WF_vars(ReadEnded(1))

-----------------------------------------------------------------------------
(* Properties *)

\* a run that was started and has not reported its end
InFlight(s) == s.pc \notin {"idle", "alerted"} /\ s.final = "none"

ImageMin == [f \in Files |-> MathMin(DOMAIN HexImage[f])]
ImageMax == [f \in Files |-> MathMax(DOMAIN HexImage[f])]

\* the files whose image is a whole number of pages from FLASH_BASE on
WholePageFiles ==
    {f \in Files : /\ DOMAIN HexImage[f] # {}
                   /\ ImageMin[f] = FLASH_BASE
                   /\ (ImageMax[f] + 1 - FLASH_BASE) % PAGE_SIZE = 0}

PagesOf(f) == (ImageMax[f] + 1 - FLASH_BASE) \div PAGE_SIZE

\* C1: in app.js a run goes through its phases in the order passthrough
\* frame, bootloader-start frame, sync, GET_ID, page erases, writes and never
\* back; no erase command is sent before the sync byte was answered with ACK
\* and GET_ID is over, and no write command is sent before every page of the
\* image was erased with ACK.
C1_PhaseOrder ==
    /\ [][\A r \in Runs : variant = "app" => run'[r].phase >= run[r].phase]_vars
    /\ [](\A r \in Runs : variant = "app" =>
            /\ run[r].phase >= 2 => run[r].cnt["msp"] >= 1
            /\ run[r].phase >= 3 => run[r].cnt["msp"] = 2
            /\ run[r].phase >= 4 => run[r].synced
            /\ run[r].cnt["erase"] > 0 => run[r].synced /\ run[r].idDone
            /\ run[r].cnt["write"] > 0 =>
                  /\ run[r].p > run[r].endPage
                  /\ run[r].erased = run[r].endPage - run[r].startPage + 1
                  /\ run[r].cnt["erase"] = run[r].erased)

\* a run of app.js that has sent a write command after erasing two pages
C1_Witness ==
    /\ variant = "app"
    /\ run[1].phase = 6
    /\ run[1].cnt["write"] > 0
    /\ run[1].erased = 2

\* C2: in app.js the first NACK in an erase exchange ends the run: no
\* further erase command and no write command is sent, and the run reports
\* the erase error with the page of the NACKed erase.
C2_EraseNackAborts ==
    /\ [](\A r \in Runs : variant = "app" /\ run[r].eNackAt >= 0 =>
            /\ run[r].cnt["erase"] = run[r].eNackAt
            /\ run[r].cnt["erase"] = run[r].eNackPage - run[r].startPage + 1
            /\ run[r].cnt["write"] = 0
            /\ \/ run[r].pc \in EraseReads /\ run[r].rd = "got" /\ run[r].ret = NACK
               \/ /\ run[r].final = "error"
                  /\ run[r].err = "Erase failed"
                  /\ run[r].errPage = run[r].eNackPage)
    /\ [][\A r \in Runs : variant = "app" /\ run[r].eNackAt >= 0 /\ run'[r] # run[r] =>
            run'[r].final = "error" /\ run[r].final = "none"]_vars

\* the image of two pages whose second erase was NACKed: two erase commands,
\* no write command, the error names page 1
C2_Witness ==
    /\ variant = "app"
    /\ run[1].file = 2
    /\ run[1].final = "error"
    /\ run[1].err = "Erase failed"
    /\ run[1].errPage = 1
    /\ run[1].cnt["erase"] = 2
    /\ run[1].cnt["write"] = 0

\* C3: in app.js, part_001 and part_002 alike, a NACK received in a stage of
\* a write-memory exchange ends the run: no further write command is sent and
\* the run does not report success.
C3_WriteNackAborts ==
    \A r \in Runs : run[r].wNackAt >= 0 =>
        /\ run[r].cnt["write"] = run[r].wNackAt
        /\ run[r].final # "success"

\* C4: app.js with a device that answers every read with the single byte
\* ACK, flashing an image of N whole pages from FLASH_BASE on: the run never
\* fails, and when it is over it has sent N erase commands and
\* N * PAGE_SIZE / WRITE_CHUNK write commands and reports success; after
\* that nothing is sent and nothing is read.
C4_AllAck ==
    /\ [](\A r \in Runs :
            variant = "app" /\ run[r].file \in WholePageFiles /\ run[r].allAck =>
            /\ run[r].final # "error"
            /\ run[r].cnt["erase"] <= PagesOf(run[r].file)
            /\ run[r].cnt["write"] <= (PagesOf(run[r].file) * PAGE_SIZE) \div WRITE_CHUNK
            /\ run[r].pc = "done" =>
                  /\ run[r].final = "success"
                  /\ run[r].cnt["erase"] = PagesOf(run[r].file)
                  /\ run[r].erased = PagesOf(run[r].file)
                  /\ run[r].cnt["write"] =
                        (PagesOf(run[r].file) * PAGE_SIZE) \div WRITE_CHUNK)
    /\ [][\A r \in Runs : variant = "app" /\ run[r].final = "success" =>
            run'[r] = run[r] /\ wire' = wire /\ readQ' = readQ]_vars

\* two pages flashed with every read answered by ACK: 2 erases, 128 writes
C4_Witness ==
    /\ variant = "app"
    /\ run[1].file = 2
    /\ run[1].allAck
    /\ run[1].nRecv > 0
    /\ run[1].final = "success"
    /\ run[1].cnt["erase"] = 2
    /\ run[1].cnt["write"] = 128

\* C5: blSync of app.js sends at most SYNC_ATTEMPTS sync bytes; when all of
\* them fail the run reports the sync error having sent no command; and an
\* attempt that got no byte within its time is over, so that the next
\* attempt is made.
C5_SyncAttempts ==
    \A r \in Runs : variant = "app" =>
        /\ run[r].cnt["sync"] <= SYNC_ATTEMPTS
        /\ run[r].err = "Sync failed" =>
              /\ run[r].cnt["sync"] = SYNC_ATTEMPTS
              /\ run[r].cnt["getid"] = 0
              /\ run[r].cnt["erase"] = 0
              /\ run[r].cnt["write"] = 0
        /\ ~(run[r].pc = "sync_rd" /\ run[r].rd = "wait" /\ run[r].expired)

\* C6: every run that was started reports its end, success or error, in the
\* end -- also when the device stays silent.
C6_RunEnds ==
    \A r \in Runs : InFlight(run[r]) ~> run[r].final # "none"

\* C7: no wait for an answer byte stays pending once its time is over: the
\* wait has ended with the timeout error by then.
C7_WaitEnds ==
    \A r \in Runs : run[r].rd = "wait" => ~run[r].expired

\* C8: at most one run is in flight and at most one read is pending at any
\* time, also when the start button is clicked again.
C8_OneRun ==
    /\ Cardinality({r \in Runs : InFlight(run[r])}) <= 1
    /\ Len(readQ) <= 1

\* C9: blWrite of app.js called with data of a length outside 1..256 sends
\* nothing.
C9_LengthChecked ==
    \A r \in Runs :
        run[r].caller = "direct" /\ Len(run[r].wdata) \notin 1 .. 256 =>
            run[r].nSend = 0

\* C10: app.js started with a HEX file that holds a record of unparseable
\* length or checksum sends nothing to the port and does not report success.
C10_BadHexRejected ==
    \A r \in Runs :
        variant = "app" /\ run[r].file \in BadFiles =>
            /\ run[r].nSend = 0
            /\ run[r].final # "success"

\* the reads that take the answer to blSendCmd, and the two bytes of each
CmdReads == {"getid_cmd", "erase_cmd", "write_cmd"}

CmdPair(pc) ==
    CASE pc = "getid_cmd" -> <<2, 253>>
      [] pc = "erase_cmd" -> <<68, 187>>
      [] pc = "write_cmd" -> <<49, 206>>
      [] OTHER -> <<>>

\* the error a NACK to the command ends the run with
CmdNackError(pc) ==
    CASE pc = "getid_cmd" -> "GET_ID failed"
      [] pc = "erase_cmd" -> "Erase failed"
      [] pc = "write_cmd" -> "Write failed"
      [] OTHER -> ""

\* C11: blSendCmd(cmd) of app.js has sent the two bytes cmd, cmd XOR 0xFF
\* and nothing else when it waits for the answer; the one byte it reads
\* decides: on ACK the caller goes on without an error, on NACK the caller
\* fails with its own error, and on every other byte the run ends with the
\* invalid-response error, having sent nothing more.
C11_SendCmd ==
    /\ [](\A r \in Runs : variant = "app" /\ run[r].pc \in CmdReads =>
            wire.bytes = CmdPair(run[r].pc))
    /\ [][\A r \in Runs :
            variant = "app" /\ run[r].pc \in CmdReads /\ run[r].rd = "got"
                /\ run[r].caller = "flash" /\ run'[r] # run[r] =>
            /\ run'[r].nRecv = run[r].nRecv
            /\ run[r].ret = ACK =>
                  run'[r].final = "none" /\ run'[r].pc \notin {"error", run[r].pc}
            /\ run[r].ret = NACK =>
                  /\ run'[r].final = "error"
                  /\ run'[r].err = CmdNackError(run[r].pc)
                  /\ run'[r].nSend = run[r].nSend
            /\ run[r].ret \notin {ACK, NACK} =>
                  /\ run'[r].final = "error"
                  /\ run'[r].err = "Invalid response"
                  /\ run'[r].nSend = run[r].nSend]_vars

\* the erase command 0x44 0xBB answered with the byte 0: the run has ended
\* with the invalid-response error and the command is the last thing sent
C11_Witness ==
    /\ variant = "app"
    /\ run[1].final = "error"
    /\ run[1].err = "Invalid response"
    /\ run[1].cnt["erase"] = 1
    /\ wire.bytes = <<68, 187>>

\* the five bytes that follow an ACKed erase command for page p
PageFrame(p) ==
    LET hi == (p \div 256) % 256
        lo == p % 256
    IN  <<0, 0, hi, lo, XorNat(hi, lo)>>

\* C12: blErasePage(page) of app.js sends 0x44 0xBB; when that is ACKed it
\* sends 0, 0, the high and the low byte of the page and the XOR of the
\* four, and nothing when it is NACKed; the page counts as erased and flash
\* goes on exactly when both answers are ACK, and after a NACK to either the
\* run ends with the erase error.
C12_ErasePage ==
    /\ [](\A r \in Runs : variant = "app" =>
            /\ run[r].pc = "erase_cmd" => wire.bytes = <<68, 187>>
            /\ run[r].pc = "erase_ack" => wire.bytes = PageFrame(run[r].p))
    /\ [][\A r \in Runs :
            variant = "app" /\ run[r].rd = "got" /\ run'[r] # run[r] =>
            /\ run[r].pc = "erase_cmd" /\ run[r].ret = ACK =>
                  /\ run'[r].pc = "erase_ack"
                  /\ wire'.bytes = PageFrame(run[r].p)
                  /\ run'[r].erased = run[r].erased
            /\ run[r].pc = "erase_cmd" /\ run[r].ret = NACK =>
                  /\ wire' = wire
                  /\ run'[r].nSend = run[r].nSend
                  /\ run'[r].erased = run[r].erased
                  /\ run'[r].err = "Erase failed"
            /\ run[r].pc = "erase_ack" /\ run[r].ret = ACK =>
                  /\ run'[r].erased = run[r].erased + 1
                  /\ run'[r].p = run[r].p + 1
                  /\ run'[r].final = "none"
            /\ run[r].pc = "erase_ack" /\ run[r].ret = NACK =>
                  /\ run'[r].erased = run[r].erased
                  /\ run'[r].err = "Erase failed"]_vars

\* page 1 erased: command and page frame both ACKed, 00 00 00 01 01 on the wire
C12_Witness ==
    /\ variant = "app"
    /\ run[1].pc = "erase"
    /\ run[1].p = 2
    /\ run[1].erased = 2
    /\ wire.bytes = <<0, 0, 0, 1, 1>>

\* the 4 bytes of addr, most significant first, and their XOR
AddrFrame(addr) ==
    LET b3 == (addr \div 16777216) % 256
        b2 == (addr \div 65536) % 256
        b1 == (addr \div 256) % 256
        b0 == addr % 256
    IN  <<b3, b2, b1, b0, XorNat(XorNat(b3, b2), XorNat(b1, b0))>>

\* 1 when the pending read has just returned ACK, else 0
AckNow(s) == IF s.rd = "got" /\ s.ret = ACK THEN 1 ELSE 0

\* C13: blWrite(addr, data) of app.js sends its three stages in order, each
\* after the answer to the one before: 0x31 0xCE; the four bytes of addr,
\* most significant first, and their XOR; the length less one, the data and
\* the XOR of these.  It returns true exactly when all three were answered
\* with ACK, and after a NACK it returns false having sent no byte of a
\* later stage.
C13_WriteStages ==
    /\ [](\A r \in Runs : variant = "app" /\ run[r].caller = "direct" =>
            /\ run[r].pc = "blwrite" => run[r].nSend = 0
            /\ run[r].pc = "write_cmd" =>
                  wire.bytes = <<49, 206>> /\ run[r].wAcks = AckNow(run[r])
            /\ run[r].pc = "write_addr" =>
                  wire.bytes = AddrFrame(run[r].waddr) /\ run[r].wAcks = 1 + AckNow(run[r])
            /\ run[r].pc = "write_data" =>
                  /\ run[r].wAcks = 2 + AckNow(run[r])
                  /\ Len(wire.bytes) = Len(run[r].wdata) + 2
                  /\ wire.bytes[1] = (Len(run[r].wdata) - 1) % 256
                  /\ SubSeq(wire.bytes, 2, Len(run[r].wdata) + 1) = run[r].wdata
                  /\ wire.bytes[Len(wire.bytes)] =
                        xorChecksum(SubSeq(wire.bytes, 1, Len(wire.bytes) - 1))
            /\ run[r].pc = "returned_true" => run[r].wAcks = 3
            /\ run[r].pc = "returned_false" => run[r].wAcks < 3
            /\ run[r].wAcks = 3 => run[r].pc \in {"write_data", "returned_true"})
    /\ [][\A r \in Runs :
            variant = "app" /\ run[r].caller = "direct" /\ run[r].rd = "got"
                /\ run[r].pc \in BlWriteReads /\ run[r].ret = NACK
                /\ run'[r] # run[r] =>
            /\ run'[r].pc = "returned_false"
            /\ run'[r].nSend = run[r].nSend
            /\ wire' = wire]_vars
    /\ [][\A r \in Runs :
            variant = "app" /\ run[r].caller = "direct" /\ run[r].rd = "got"
                /\ run[r].pc = "write_data" /\ run[r].ret = ACK
                /\ run'[r] # run[r] =>
            run'[r].pc = "returned_true"]_vars

\* a call with 32 bytes of data that returned true
C13_Witness ==
    /\ variant = "app"
    /\ run[1].caller = "direct"
    /\ run[1].pc = "returned_true"
    /\ Len(run[1].wdata) = 32
    /\ run[1].waddr = FLASH_BASE + 256

\* C14: blGetID of app.js sends 0x02 0xFD; when that is NACKed the run ends
\* with the ID error and no erase is sent; when it is ACKed the run goes on
\* to the erase phase only after the length byte, the ID bytes and one
\* trailing byte were read, and that trailing byte is an ACK.
C14_GetID ==
    \A r \in Runs : variant = "app" =>
        /\ run[r].pc \in {"getid_cmd", "getid_len", "getid_pid", "getid_tail"} =>
              wire.bytes = <<2, 253>>
        /\ run[r].err = "GET_ID failed" =>
              run[r].final = "error" /\ run[r].cnt["erase"] = 0
        /\ run[r].cnt["erase"] > 0 => run[r].idDone
        /\ run[r].idDone => run[r].idTail = ACK

\* the files whose image is not empty, and the first and last page of each
ImageFiles == {f \in Files : DOMAIN HexImage[f] # {}}
FirstPage(f) == (ImageMin[f] - 134217728) \div 2048
LastPage(f) == (ImageMax[f] - 134217728) \div 2048

\* C15: flash of app.js sends erase commands for the pages
\* floor((minAddr - 0x08000000) / 2048) .. floor((maxAddr - 0x08000000) / 2048)
\* of the image, in ascending order and each once: the k-th erase command of
\* a run is for the first page + k - 1, none is for a page after the last,
\* and the write loop starts after exactly last - first + 1 erase commands.
C15_PageRange ==
    \A r \in Runs : variant = "app" /\ run[r].file \in ImageFiles =>
        LET first == FirstPage(run[r].file)
            last  == LastPage(run[r].file)
        IN  /\ run[r].pc = "erase" \/ run[r].cnt["erase"] > 0 =>
                  run[r].startPage = first /\ run[r].endPage = last
            /\ run[r].pc = "erase" =>
                  run[r].p = first + run[r].cnt["erase"] /\ run[r].p <= last + 1
            /\ run[r].pc \in EraseReads =>
                  run[r].p = first + run[r].cnt["erase"] - 1 /\ run[r].p <= last
            /\ run[r].pc = "erase_ack" => wire.bytes = PageFrame(run[r].p)
            /\ run[r].cnt["erase"] <= last - first + 1
            /\ run[r].pc \in {"write", "blwrite", "done"} \cup BlWriteReads =>
                  run[r].cnt["erase"] = last - first + 1

\* the image 0x08000000 .. 0x080007FF: startPage = endPage = 0, one erase
C15_Witness ==
    /\ variant = "app"
    /\ run[1].file = 1
    /\ run[1].minAddr = 134217728
    /\ run[1].maxAddr = 134219775
    /\ run[1].pc = "write"
    /\ run[1].startPage = 0
    /\ run[1].endPage = 0
    /\ run[1].cnt["erase"] = 1

\* a call of blWrite by flash is in progress
InBlWrite(s) == s.pc \in {"blwrite"} \cup BlWriteReads

\* the calls of blWrite that came before the one in progress
ChunksBefore(s) == IF s.pc = "blwrite" THEN s.cnt["write"] ELSE s.cnt["write"] - 1

\* C16: the chunks flash of app.js hands to blWrite, as long as every write
\* is ACKed, start at minAddr, follow one another without gap or overlap in
\* ascending order and end at maxAddr: the k-th chunk starts at
\* minAddr + (k - 1) * WRITE_CHUNK and is WRITE_CHUNK bytes long, or shorter
\* (but not empty) when it is the last and ends at maxAddr; each byte is the
\* image's byte at its address, or 0xFF where the image has none; the run
\* succeeds when the chunk ending at maxAddr was written.
C16_Chunks ==
    \A r \in Runs : variant = "app" /\ run[r].file \in ImageFiles =>
        LET s    == run[r]
            img  == HexImage[s.file]
            lo   == ImageMin[s.file]
            hi   == ImageMax[s.file]
            size == Len(s.wdata)
        IN  /\ InBlWrite(s) =>
                  /\ s.waddr = lo + ChunksBefore(s) * WRITE_CHUNK
                  /\ s.waddr <= hi
                  /\ size >= 1 /\ size <= WRITE_CHUNK
                  /\ size = WRITE_CHUNK \/ s.waddr + size - 1 = hi
                  /\ s.waddr + size - 1 <= hi
                  /\ \A j \in 1 .. size :
                        s.wdata[j] = IF (s.waddr + j - 1) \in DOMAIN img
                                     THEN img[s.waddr + j - 1] ELSE 255
                  /\ s.addr = s.waddr + size
            /\ s.pc = "write_data" => SubSeq(wire.bytes, 2, size + 1) = s.wdata
            /\ s.pc = "write" =>
                  s.addr = Min2(lo + s.cnt["write"] * WRITE_CHUNK, hi + 1)
            /\ s.pc = "done" =>
                  /\ s.addr = hi + 1
                  /\ s.cnt["write"] = (hi - lo + WRITE_CHUNK) \div WRITE_CHUNK

\* the last chunk of the image 0x08000000 .. 0x080007FF, which has bytes at
\* its two ends only: 31 bytes 0xFF and the image's last byte
C16_Witness ==
    /\ variant = "app"
    /\ run[1].file = 1
    /\ run[1].pc = "write_data"
    /\ run[1].cnt["write"] = 64
    /\ run[1].waddr = 134219744
    /\ run[1].wdata = Fill(31, 255) \o <<34>>

\* the upper 16 bits of the addresses after the first k records: the value
\* of the last type-04 record among them, 0 when there is none
RefUpper(recs, k) ==
    LET ext == {j \in 1 .. k : recs[j].t = 4}
    IN  IF ext = {} THEN 0
        ELSE LET j == CHOOSE x \in ext : \A y \in ext : y <= x
             IN  recs[j].d[1] * 256 + recs[j].d[2]

\* the address upper * 65536 + o + i, as its upper and lower 16 bits
RefKey(upper, o, i) == <<upper + ((o + i) \div 65536), (o + i) % 65536>>

\* the bytes record k puts into the image
RefWrites(recs, k) ==
    LET rec == recs[k]
        up  == RefUpper(recs, k - 1)
    IN  IF rec.t # 0 THEN [q \in {} |-> 0]
        ELSE [q \in {RefKey(up, rec.o, i - 1) : i \in 1 .. Len(rec.d)} |->
                rec.d[CHOOSE i \in 1 .. Len(rec.d) : RefKey(up, rec.o, i - 1) = q]]

\* the image after the first k records, later records over earlier ones
RECURSIVE RefImage(_, _)
RefImage(recs, k) ==
    IF k = 0 THEN [q \in {} |-> 0]
    ELSE RefWrites(recs, k) @@ RefImage(recs, k - 1)

\* C17: parseHex of app.js after each line holds the image the records so
\* far describe: base is the value of the last type-04 record shifted left
\* by 16 (0 at the start), a type-00 record puts its i-th byte at
\* base + offset + i, later records over earlier ones, every other line
\* changes nothing; every key is a non-negative 32-bit address, so that
\* reading the image back at upper * 65536 + lower gives the bytes of the
\* records; and the map returned is the one the loop ended with.
C17_ParseHex ==
    call.fn = "parseHex" =>
        LET mem == call.st.mem
            ref == RefImage(call.arg, call.k)
        IN  /\ \A a \in DOMAIN mem : a >= 0
            /\ {<<a \div 65536, a % 65536>> : a \in DOMAIN mem} = DOMAIN ref
            /\ \A a \in DOMAIN mem : mem[a] = ref[<<a \div 65536, a % 65536>>]
            /\ call.st.base >= 0
            /\ call.st.base \div 65536 = RefUpper(call.arg, call.k)
            /\ call.done => call.out = mem

\* CRC-8, polynomial 0xD5, initial value 0, bit by bit from the most
\* significant bit of the first byte on, no reflection, no final XOR
RefCrc(buf) ==
    LET reg[j \in 0 .. 8 * Len(buf)] ==
            IF j = 0 THEN 0
            ELSE LET byte == buf[((j - 1) \div 8) + 1]
                     bit  == (byte \div (2 ^ (7 - ((j - 1) % 8)))) % 2
                     prev == reg[j - 1]
                     top  == prev \div 128
                     sh   == (prev * 2) % 256
                 IN  IF top # bit THEN XorNat(sh, 213) ELSE sh
    IN  reg[8 * Len(buf)]

\* C18: mspCrc8D5 of app.js and msp_crc8_d5 of part_001 and of part_002
\* each return the CRC-8 of the buffer with polynomial 0xD5 (most
\* significant bit first, initial value 0, no reflection, no final XOR): a
\* value in 0 .. 255, 0 for the empty buffer, and the same from all three.
C18_CrcAgree ==
    call.fn = "crc" =>
        /\ \A who \in call.done :
              /\ call.out[who] \in 0 .. 255
              /\ call.out[who] = RefCrc(call.arg)
              /\ call.arg = <<>> => call.out[who] = 0
        /\ \A a, b \in call.done : call.out[a] = call.out[b]

\* the three results for a buffer of three bytes whose register leaves 8
\* bits when it is not masked
C18_Witness ==
    /\ call.fn = "crc"
    /\ call.arg = <<255, 213, 128>>
    /\ call.done = {"app", "p1", "p2"}
    /\ call.out.app = call.out.p2
    /\ CrcRegister(call.arg) \notin 0 .. 255

\* C19: every address sent in a write-memory command lies in flash that was
\* erased with ACK earlier in the run: in app.js the page of every address
\* of the chunk handed to blWrite is one of the pages whose erase exchange
\* was ACKed, and in part_001 no write command is sent unless the global
\* erase was answered with ACK.
C19_WritesErased ==
    \A r \in Runs :
        /\ variant = "app" /\ run[r].caller = "flash" /\ InBlWrite(run[r]) =>
              \A a \in run[r].waddr .. run[r].waddr + Len(run[r].wdata) - 1 :
                  PageOf(a) \in run[r].startPage .. run[r].startPage + run[r].erased - 1
        /\ variant = "p1" /\ run[r].cnt["write"] > 0 => run[r].erased = 1

\* C20: readByte of app.js and of part_002 loses no received byte: when a
\* read result holds several bytes, the bytes after the first are returned
\* by the following calls, so no byte of a chunk is left behind.
C20_NoByteLost ==
    \A r \in Runs : variant \in {"app", "p2"} => run[r].rest = <<>>

\* the files without a data record: parseHex returns an empty map
EmptyFiles == {f \in Files : DOMAIN HexImage[f] = {}}

\* C21: when the parsed image is empty, flash of app.js sends no erase-page
\* command and no write-memory command, ends, and the run ends with the
\* success event: a run with such a file never starts an erase or a write and
\* does not fail after flash was entered, and a run that enters flash
\* reaches the success event.
C21_EmptyImage ==
    /\ [](\A r \in Runs :
             variant = "app" /\ run[r].file \in EmptyFiles =>
                 /\ run[r].cnt["erase"] = 0
                 /\ run[r].cnt["write"] = 0
                 /\ run[r].pc \in {"erase", "write", "done"} =>
                       /\ run[r].minAddr = PosInf /\ run[r].maxAddr = NegInf
                       /\ run[r].mem = EmptyMap
                       /\ run[r].final # "error"
                 /\ run[r].final = "error" =>
                       run[r].err \notin {"Erase failed", "Write failed"})
    /\ \A r \in Runs :
          (variant = "app" /\ run[r].file \in EmptyFiles /\ run[r].pc = "flash")
              ~> (run[r].final = "success" /\ run[r].phase < 5)

\* the run with the file that holds only the end-of-file record has ended
\* with the success event; its last write was GET_ID
C21_Witness ==
    /\ variant = "app"
    /\ run[1].file = 5
    /\ run[1].final = "success"
    /\ run[1].minAddr = PosInf
    /\ run[1].cnt["erase"] = 0 /\ run[1].cnt["write"] = 0
    /\ run[1].phase = 4

=============================================================================
